---- MODULE Spec2Model ----
(***************************************************************************)
(* Model of hired-backend/app/routes/auth_routes.py: the signup, login,    *)
(* /protected and /profile handlers, run by concurrent request handlers    *)
(* against the hosted identity platform and its `users` relation.          *)
(*                                                                         *)
(* Each action is one handler segment: the local code up to and including  *)
(* one call to the platform (the only place where handlers share state).   *)
(* Handlers hold no identity of their own, so the requests in flight are   *)
(* kept as a bag of their local variables.                                 *)
(* The platform is not part of the repository: every call is a             *)
(* nondeterministic choice among the outcomes the handlers provide for (a  *)
(* returned result, or a raised failure carrying a message).               *)
(*                                                                         *)
(* Text is a sequence of words; `in` is contiguous-subsequence containment *)
(* and str.lower() maps each word to its lower-case form.                  *)
(***************************************************************************)
EXTENDS Integers, Sequences, FiniteSets, Bags, TLC

\* ------------------------------------------------------------- bounds
\* The number of requests the server handles at a time.
NumHandlers == 2


\* ------------------------------------------------------------- values
\* Python's None as the value of a JSON field that is absent.
None == "<None>"

Emails == {"a@x.com"}
Passwords == {"p", "q"}
FirstNames == {"A"}
LastNames == {"L"}
Roles == {"candidate"}

\* A field of a request body: absent, the empty string, or a value.
Field(vals) == {None, ""} \cup vals

\* An id the platform hands out that no identity record carries.
FakeUid == 0

\* ------------------------------------------------------------- text
LowerWord(w) ==
    CASE w = "User" -> "user"
      [] w = "Invalid" -> "invalid"
      [] w = "No" -> "no"
      [] w = "Key" -> "key"
      [] w = "Connection" -> "connection"
      [] w = "JSON" -> "json"
      [] w = "JWT" -> "jwt"
      [] w = "'NoneType'" -> "'nonetype'"
      [] OTHER -> w

\* str.lower()
Lower(msg) == [i \in 1..Len(msg) |-> LowerWord(msg[i])]

\* pat in msg
Contains(msg, pat) ==
    \E i \in 0..(Len(msg) - Len(pat)) :
        \A j \in 1..Len(pat) : msg[i + j] = pat[j]

\* The fixed texts of the handlers' responses.
TextAllFields == <<"All", "fields", "are", "required">>
TextNoUserData == <<"Supabase", "signup", "failed", "to", "return", "user", "data", ".">>
TextProfileWriteFailed ==
    <<"Profile", "creation/update", "failed", ".", "Please", "contact", "support", ".">>
TextAlreadyRegistered ==
    <<"This", "email", "is", "already", "registered", ".", "Please", "sign", "in", ".">>
TextSignupInternal ==
    <<"An", "internal", "server", "error", "occurred", "during", "registration", ".">>
TextRegistered == <<"User", "registered", "successfully">>
TextEmailPasswordRequired == <<"Email", "and", "password", "required">>
TextNotInUsers == <<"User", "not", "found", "in", "public.users">>
TextLoginOk == <<"Login", "successful">>
TextInvalidLogin == <<"Invalid", "email", "or", "password">>
TextLoginInternal == <<"An", "internal", "server", "error", "occurred", ".">>
TextMissingToken == <<"Missing", "token">>
TextInvalidToken == <<"Invalid", "token">>
TextTokenValid == <<"Token", "is", "valid">>
TextUserNotFound == <<"User", "not", "found">>

\* ------------------------------------------------------------- failure messages
\* Messages of the failures the platform's calls raise.
MsgUserAlreadyRegistered == <<"User", "already", "registered">>
MsgUserAlreadyExists == <<"AuthApiError", ":", "user", "already", "exists">>
MsgForeignKey ==
    <<"insert", "or", "update", "on", "table", "\"users\"", "violates", "foreign",
      "key", "constraint", "\"users_auth_uid_fkey\"", ":", "Key", "(auth_uid)=(0)", "is",
      "not", "present", "in", "table", "\"users\"">>
MsgUniqueViolation ==
    <<"duplicate", "key", "value", "violates", "unique", "constraint",
      "\"users_auth_uid_key\"", ":", "Key", "(auth_uid)=(1)", "already", "exists", ".">>
MsgConnection == <<"Connection", "refused">>
MsgInvalidLoginCredentials == <<"Invalid", "login", "credentials">>
MsgInvalidEmailOrPassword == <<"AuthApiError", ":", "invalid", "email", "or", "password">>
MsgUserNotFound == <<"User", "not", "found">>
MsgNoUserWithEmail == <<"No", "user", "with", "that", "email">>
MsgInvalidJwt == <<"invalid", "JWT", ":", "token", "is", "malformed">>
MsgNoRows == <<"JSON", "object", "requested", ",", "multiple", "(or", "no)", "rows", "returned">>

\* Messages of the exceptions Python itself raises inside a handler.
MsgNoAttributeUser == <<"'NoneType'", "object", "has", "no", "attribute", "'user'">>
MsgIndexError == <<"list", "index", "out", "of", "range">>

\* A failure unrelated to the request (network, rate limit): any call may raise it.
TransientMsgs == {MsgConnection}
AlreadyRegisteredMsgs == {MsgUserAlreadyRegistered, MsgUserAlreadyExists}
InvalidCredentialsMsgs == {MsgInvalidLoginCredentials, MsgInvalidEmailOrPassword}
UserNotFoundMsgs == {MsgUserNotFound, MsgNoUserWithEmail}
InvalidTokenMsgs == {MsgInvalidJwt}

NoMsg == <<>>

\* ------------------------------------------------------------- state
VARIABLES
    identities,   \* the platform's identity store: email -> [id, password]
    users,        \* the platform's `users` relation: a set of rows
    nextId,       \* the next id the identity store assigns
    handlers,     \* the requests in flight: a bag of handlers' local variables
    resp          \* the response sent by the step just taken, if any

vars == <<identities, users, nextId, handlers, resp>>

NoIdentity == [id |-> FakeUid, password |-> None]
Registered(email) == identities[email].id # FakeUid
IdentityIds == {identities[e].id : e \in Emails} \ {FakeUid}
RowsOf(uid) == {r \in users : r.auth_uid = uid}

NoResp == [kind |-> "none"]

\* The ids the identity store can come to assign.
Uids == 1..Cardinality(Emails)

\* A worker is free to take a new request, of `cap` workers.
Free(cap) == BagCardinality(handlers) < cap
Started(rec) == handlers (+) SetToBag({rec})
Finished(rec) == handlers (-) SetToBag({rec})
Moved(rec, to) == (handlers (-) SetToBag({rec})) (+) SetToBag({to})
InFlight(pc) == {r \in BagToSet(handlers) : r.pc = pc}

Init ==
    /\ identities = [e \in Emails |-> NoIdentity]
    /\ users = {}
    /\ nextId = 1
    /\ handlers = EmptyBag
    /\ resp = NoResp

\* ------------------------------------------------------------- platform
\* supabase.auth.sign_up: creates the identity of a new email; for a registered
\* email it raises, or returns the identity again, or returns a user whose id no
\* identity carries; any call may return without user data, return nothing, or
\* raise a transient failure.
SignUpOutcomes(email, password) ==
    (IF Registered(email)
     THEN {[result |-> "raise", msg |-> m, uid |-> FakeUid, create |-> FALSE] :
              m \in AlreadyRegisteredMsgs}
          \cup {[result |-> "user", msg |-> NoMsg, uid |-> u, create |-> FALSE] :
              u \in {identities[email].id, FakeUid}}
     ELSE {[result |-> "user", msg |-> NoMsg, uid |-> nextId, create |-> TRUE]})
    \cup {[result |-> r, msg |-> NoMsg, uid |-> FakeUid, create |-> FALSE] :
              r \in {"nouser", "nothing"}}
    \cup {[result |-> "raise", msg |-> m, uid |-> FakeUid, create |-> FALSE] :
              m \in TransientMsgs}

\* supabase.auth.sign_in_with_password
SignInOutcomes(email, password) ==
    (IF Registered(email) /\ identities[email].password = password
     THEN {[result |-> "user", msg |-> NoMsg, uid |-> identities[email].id]}
     ELSE {[result |-> "raise", msg |-> m, uid |-> FakeUid] :
              m \in IF Registered(email) THEN InvalidCredentialsMsgs
                    ELSE InvalidCredentialsMsgs \cup UserNotFoundMsgs})
    \cup {[result |-> "raise", msg |-> m, uid |-> FakeUid] : m \in TransientMsgs}

\* The access token of the session the platform issues to an identity.
Digits == <<"1", "2", "3", "4">>
TokenOf(uid) == <<"t", Digits[uid]>>
EmailOfUid(uid) == CHOOSE e \in Emails : identities[e].id = uid

\* supabase.auth.get_user
GetUserOutcomes(token) ==
    (IF \E u \in IdentityIds : token = TokenOf(u)
     THEN {[result |-> "user", msg |-> NoMsg, uid |-> u] :
              u \in {v \in IdentityIds : token = TokenOf(v)}}
     ELSE {[result |-> "raise", msg |-> m, uid |-> FakeUid] : m \in InvalidTokenMsgs}
          \cup {[result |-> "nothing", msg |-> NoMsg, uid |-> FakeUid]})
    \cup {[result |-> "raise", msg |-> m, uid |-> FakeUid] : m \in TransientMsgs}

\* supabase.table("users").select(...).eq("auth_uid", uid).execute()
SelectOutcomes(uid) ==
    {[result |-> "rows", msg |-> NoMsg, data |-> RowsOf(uid)]}
    \cup {[result |-> "raise", msg |-> m, data |-> {}] : m \in TransientMsgs}

\* Python's None as the data of a response.
NoData == [none |-> TRUE]

\* supabase.table('users').select('*').eq('auth_uid', uid).single().execute():
\* the row, or for no row either data None or a raised failure.
SingleOutcomes(uid) ==
    (IF RowsOf(uid) # {}
     THEN {[result |-> "row", msg |-> NoMsg, data |-> r] : r \in RowsOf(uid)}
     ELSE {[result |-> "nodata", msg |-> NoMsg, data |-> NoData],
           [result |-> "raise", msg |-> MsgNoRows, data |-> NoData]})
    \cup {[result |-> "raise", msg |-> m, data |-> NoData] : m \in TransientMsgs}

\* supabase.table("users").insert(row).execute(): the relation keeps auth_uid
\* unique and a foreign key of the identity store.
InsertOutcomes(row) ==
    (IF row.auth_uid \notin IdentityIds
     THEN {[result |-> "raise", msg |-> MsgForeignKey, users |-> users]}
     ELSE IF RowsOf(row.auth_uid) # {}
     THEN {[result |-> "raise", msg |-> MsgUniqueViolation, users |-> users]}
     ELSE {[result |-> "ok", msg |-> NoMsg, users |-> users \cup {row}]})
    \cup {[result |-> "raise", msg |-> m, users |-> users] : m \in TransientMsgs}
    \cup {[result |-> "error", msg |-> NoMsg, users |-> users]}

\* supabase.table("users").update(payload).eq("auth_uid", uid).execute()
UpdateOutcomes(uid, payload) ==
    {[result |-> "ok", msg |-> NoMsg,
      users |-> (users \ RowsOf(uid))
                \cup {[auth_uid |-> uid, first_name |-> payload.first_name,
                       last_name |-> payload.last_name, role |-> payload.role] :
                      r \in RowsOf(uid)}]}
    \cup {[result |-> "raise", msg |-> m, users |-> users] : m \in TransientMsgs}
    \cup {[result |-> "error", msg |-> NoMsg, users |-> users]}

\* ------------------------------------------------------------- responses
\* A response, with what the handler met on its way: the number of platform calls
\* it made, the write path it took, what went wrong on the way (fault: "raise" a
\* platform call raised, "error" a write reported an error, "nouser" / "nothing"
\* a call returned no user / nothing, "index" the header had no second segment),
\* the message of the exception caught (raised), and the case of the request (ctx).
Response(kind, r, calls, path, fault, raised, ctx) ==
    [kind |-> kind, status |-> r.status, body |-> r.body, calls |-> calls,
     path |-> path, fault |-> fault, raised |-> raised, ctx |-> ctx]

Error(status, text) == [status |-> status, body |-> [error |-> text]]

\* ------------------------------------------------------------- signup
Truthy(v) == v # None /\ v # ""

\* OrEmpty without the `or ""`.
OrEmpty_Raw(v) == v

\* last_name = data.get("last_name") or ""
OrEmpty(v) == IF Truthy(v) THEN v ELSE ""

\* SignupMissing with the check of role left out.
SignupMissing_NoRole(email, password, first_name, role) ==
    ~ (Truthy(email) /\ Truthy(password) /\ Truthy(first_name))

\* not all([email, password, first_name, role])
SignupMissing(email, password, first_name, role) ==
    ~ (Truthy(email) /\ Truthy(password) /\ Truthy(first_name) /\ Truthy(role))

\* ClassifySignupError without the "already registered" pattern.
ClassifySignupError_NoRegistered(msg) ==
    LET lower == Lower(msg) IN
    IF \/ Contains(lower, <<"user", "already", "exists">>)
       \/ Contains(lower, <<"insert", "or", "update", "on", "table", "\"users\"",
                            "violates", "foreign", "key", "constraint">>)
       \/ Contains(lower, <<"key", "(auth_uid)", "is", "not", "present">>)
    THEN Error(409, TextAlreadyRegistered)
    ELSE IF \/ Contains(msg, <<"has", "no", "attribute", "'error'">>)
            \/ Contains(msg, <<"has", "no", "attribute", "'user'">>)
    THEN Error(409, TextAlreadyRegistered)
    ELSE Error(500, TextSignupInternal)

\* The except block of signup.
ClassifySignupError(msg) ==
    LET lower == Lower(msg) IN
    IF \/ Contains(lower, <<"user", "already", "exists">>)
       \/ Contains(lower, <<"already", "registered">>)
       \/ Contains(lower, <<"insert", "or", "update", "on", "table", "\"users\"",
                            "violates", "foreign", "key", "constraint">>)
       \/ Contains(lower, <<"key", "(auth_uid)", "is", "not", "present">>)
    THEN Error(409, TextAlreadyRegistered)
    ELSE IF \/ Contains(msg, <<"has", "no", "attribute", "'error'">>)
            \/ Contains(msg, <<"has", "no", "attribute", "'user'">>)
    THEN Error(409, TextAlreadyRegistered)
    ELSE Error(500, TextSignupInternal)

\* WritePath with the branches exchanged.
WritePath_Swapped(exists) == IF exists THEN "insert" ELSE "update"

\* if user_profile_exists: update, else: insert
WritePath(exists) == IF exists THEN "update" ELSE "insert"

\* profile_payload, with auth_uid added for an insert
InsertPayload(uid, payload) ==
    [auth_uid |-> uid, first_name |-> payload.first_name,
     last_name |-> payload.last_name, role |-> payload.role]

\* The requests a client may send to POST /signup.
SignupRequests ==
    [email : Field(Emails), password : Field(Passwords),
     first_name : Field(FirstNames), last_name : Field(LastNames),
     role : Field(Roles)]

\* A required field of the request is absent or empty.
AnyMissing(req) ==
    \E f \in {req.email, req.password, req.first_name, req.role} : f \in {None, ""}

\* The requests signup answers before any call to the platform.
RejectedRequests ==
    {req \in SignupRequests :
        SignupMissing(req.email, req.password, req.first_name, req.role)}

\* signup up to and including supabase.auth.sign_up
SignupStart(cap) ==
    /\ Free(cap)
    /\ \/ /\ RejectedRequests # {}
          /\ resp' = Response("signup", Error(400, TextAllFields), 0, "none", "none",
                              NoMsg,
                              [missing |-> \A req \in RejectedRequests : AnyMissing(req),
                               registered |-> FALSE, orphan |-> FALSE, uid |-> FakeUid])
          /\ UNCHANGED <<identities, users, nextId, handlers>>
       \/ \E req \in SignupRequests :
            /\ ~ SignupMissing(req.email, req.password, req.first_name, req.role)
            /\ \E o \in SignUpOutcomes(req.email, req.password) :
                LET ctx == [missing |-> AnyMissing(req),
                            registered |-> Registered(req.email),
                            orphan |-> /\ Registered(req.email)
                                       /\ RowsOf(identities[req.email].id) = {},
                            uid |-> o.uid,
                            payload |-> [first_name |-> req.first_name,
                                         last_name |-> OrEmpty(req.last_name),
                                         role |-> req.role]]
                IN
                /\ identities' = IF o.create
                                 THEN [identities EXCEPT ![req.email] =
                                           [id |-> o.uid, password |-> req.password]]
                                 ELSE identities
                /\ nextId' = IF o.create THEN nextId + 1 ELSE nextId
                /\ UNCHANGED users
                /\ IF o.result = "user"
                   THEN /\ handlers' = Started([pc |-> "signup_select", ctx |-> ctx])
                        /\ resp' = NoResp
                   ELSE /\ handlers' = handlers
                        /\ resp' =
                             IF o.result = "nouser"
                             THEN Response("signup", Error(400, TextNoUserData), 1,
                                           "none", "nouser", NoMsg, ctx)
                             ELSE LET msg == IF o.result = "nothing"
                                             THEN MsgNoAttributeUser ELSE o.msg
                                  IN Response("signup", ClassifySignupError(msg), 1,
                                              "none", o.result, msg, ctx)

\* signup: the existence check
SignupSelect ==
    \E rec \in InFlight("signup_select") :
        /\ \E o \in SelectOutcomes(rec.ctx.uid) :
            IF o.result = "rows"
            THEN /\ handlers' = Moved(rec, [pc |-> "signup_write", ctx |-> rec.ctx,
                                            exists |-> Cardinality(o.data) > 0])
                 /\ resp' = NoResp
            ELSE /\ handlers' = Finished(rec)
                 /\ resp' = Response("signup", ClassifySignupError(o.msg), 2, "none",
                                     "raise", o.msg, rec.ctx)
        /\ UNCHANGED <<identities, users, nextId>>

\* signup: the chosen write and the response
SignupWrite ==
    \E rec \in InFlight("signup_write") :
        /\ LET ctx == rec.ctx
               uid == ctx.uid
               path == WritePath(rec.exists)
               outcomes == IF path = "update"
                           THEN UpdateOutcomes(uid, ctx.payload)
                           ELSE InsertOutcomes(InsertPayload(uid, ctx.payload))
           IN \E o \in outcomes :
                /\ users' = o.users
                /\ resp' =
                     IF o.result = "raise"
                     THEN Response("signup", ClassifySignupError(o.msg), 3, path,
                                   "raise", o.msg, ctx)
                     ELSE IF o.result = "error"
                     THEN Response("signup", Error(500, TextProfileWriteFailed), 3, path,
                                   "error", NoMsg, ctx)
                     ELSE Response("signup",
                                   [status |-> 201,
                                    body |-> [message |-> TextRegistered,
                                              auth_uid |-> uid]],
                                   3, path, "none", NoMsg, ctx)
        /\ handlers' = Finished(rec)
        /\ UNCHANGED <<identities, nextId>>

\* ------------------------------------------------------------- login
\* not email or not password
LoginMissing(email, password) == ~ Truthy(email) \/ ~ Truthy(password)

\* ClassifyLoginError matching the message as raised, not lower-cased.
ClassifyLoginError_NoLower(msg) ==
    IF \/ Contains(msg, <<"invalid", "login", "credentials">>)
       \/ Contains(msg, <<"invalid", "email", "or", "password">>)
    THEN Error(401, TextInvalidLogin)
    ELSE IF \/ Contains(msg, <<"user", "not", "found">>)
            \/ Contains(msg, <<"no", "user", "with", "that", "email">>)
    THEN Error(401, TextInvalidLogin)
    ELSE Error(500, TextLoginInternal)

\* The except block of login.
ClassifyLoginError(msg) ==
    LET error_message == Lower(msg) IN
    IF \/ Contains(error_message, <<"invalid", "login", "credentials">>)
       \/ Contains(error_message, <<"invalid", "email", "or", "password">>)
    THEN Error(401, TextInvalidLogin)
    ELSE IF \/ Contains(error_message, <<"user", "not", "found">>)
            \/ Contains(error_message, <<"no", "user", "with", "that", "email">>)
    THEN Error(401, TextInvalidLogin)
    ELSE Error(500, TextLoginInternal)

\* LoginNoProfile without the check: user_data.data[0] raises IndexError.
LoginNoProfile_Unchecked == Error(500, TextLoginInternal)

\* if not user_data.data: 404
LoginNoProfile == Error(404, TextNotInUsers)

\* login up to and including supabase.auth.sign_in_with_password
LoginStart(cap) ==
    /\ Free(cap)
    /\ \E email \in Field(Emails), password \in Field(Passwords) :
        IF LoginMissing(email, password)
        THEN /\ resp' = Response("login", Error(400, TextEmailPasswordRequired), 0,
                                 "none", "none", NoMsg,
                                 [case |-> "missing", uid |-> FakeUid])
             /\ handlers' = handlers
        ELSE \E o \in SignInOutcomes(email, password) :
            LET case == IF ~ Registered(email) THEN "unknown_email"
                        ELSE IF identities[email].password # password
                        THEN "wrong_password"
                        ELSE "credentials_ok"
            IN
            IF o.result = "user"
            THEN /\ handlers' = Started([pc |-> "login_select", uid |-> o.uid,
                                         email |-> email])
                 /\ resp' = NoResp
            ELSE /\ handlers' = handlers
                 /\ resp' = Response("login", ClassifyLoginError(o.msg), 1, "none",
                                     "raise", o.msg, [case |-> case, uid |-> FakeUid])
    /\ UNCHANGED <<identities, users, nextId>>

\* login: the profile lookup and the response
LoginSelect ==
    \E rec \in InFlight("login_select") :
        /\ \E o \in SelectOutcomes(rec.uid) :
            LET ctx == [case |-> "credentials_ok", uid |-> rec.uid] IN
            IF o.result = "raise"
            THEN resp' = Response("login", ClassifyLoginError(o.msg), 2, "none", "raise",
                                  o.msg, ctx)
            ELSE IF o.data = {}
            THEN resp' = Response("login", LoginNoProfile, 2, "none", "none", NoMsg, ctx)
            ELSE \E profile \in o.data :
                resp' = Response("login",
                                 [status |-> 200,
                                  body |-> [message |-> TextLoginOk,
                                            access_token |-> TokenOf(rec.uid),
                                            user |-> [auth_uid |-> rec.uid,
                                                      first_name |-> profile.first_name,
                                                      last_name |-> profile.last_name,
                                                      role |-> profile.role,
                                                      email |-> rec.email]]],
                                 2, "none", "none", NoMsg, ctx)
        /\ handlers' = Finished(rec)
        /\ UNCHANGED <<identities, users, nextId>>

\* ------------------------------------------------------------- /protected
\* str.split(" "): the text is a sequence of characters
RECURSIVE Split(_)
Split(s) ==
    IF \A i \in 1..Len(s) : s[i] # " "
    THEN <<s>>
    ELSE LET i == CHOOSE k \in 1..Len(s) :
                      s[k] = " " /\ \A j \in 1..(k - 1) : s[j] # " "
         IN <<SubSeq(s, 1, i - 1)>> \o Split(SubSeq(s, i + 1, Len(s)))

\* The Authorization header of a request: absent, or its characters.
NoHeader == [present |-> FALSE, value |-> <<>>]
Header(chars) == [present |-> TRUE, value |-> chars]
Headers ==
    {NoHeader, Header(<<>>), Header(<<"B">>), Header(<<"B", " ">>),
     Header(<<"B", " ", "x">>)}
    \cup {Header(<<"B", " ">> \o TokenOf(u)) : u \in Uids}

\* not auth_header
HeaderMissing(header) == ~ header.present \/ header.value = <<>>

\* The header carries the access token of an identity.
Verifiable(header) ==
    /\ header.present
    /\ \E u \in IdentityIds : header.value = <<"B", " ">> \o TokenOf(u)

\* The except block of protected_test: jsonify({"error": str(e)}), 500
ProtectedError(msg) == Error(500, msg)

\* protected_test
Protected(cap) ==
    /\ Free(cap)
    /\ \E header \in Headers :
        LET ctx == [header |-> header, verifiable |-> Verifiable(header)] IN
        IF HeaderMissing(header)
        THEN resp' = Response("protected", Error(401, TextMissingToken), 0, "none",
                              "none", NoMsg, ctx)
        ELSE LET parts == Split(header.value) IN
             IF Len(parts) < 2
             THEN resp' = Response("protected", ProtectedError(MsgIndexError), 0, "none",
                                   "index", MsgIndexError, ctx)
             ELSE \E o \in GetUserOutcomes(parts[2]) :
                 resp' =
                    IF o.result = "raise"
                    THEN Response("protected", ProtectedError(o.msg), 1, "none", "raise",
                                  o.msg, ctx)
                    ELSE IF o.result = "nothing"
                    THEN Response("protected", Error(403, TextInvalidToken), 1, "none",
                                  "nothing", NoMsg, ctx)
                    ELSE Response("protected",
                                  [status |-> 200,
                                   body |-> [message |-> TextTokenValid,
                                             user_id |-> o.uid,
                                             email |-> EmailOfUid(o.uid)]],
                                  1, "none", "none", NoMsg, ctx)
    /\ UNCHANGED <<identities, users, nextId, handlers>>

\* ------------------------------------------------------------- /profile
\* The except block of profile: jsonify({"error": str(e)}), 500
ProfileError(msg) == Error(500, msg)

\* ProfileResult without the check of None.
ProfileResult_Unchecked(data) == [status |-> 200, body |-> data]

\* if response.data is None: 404, else: the row
ProfileResult(data) ==
    IF data = NoData THEN Error(404, TextUserNotFound)
    ELSE [status |-> 200, body |-> data]

\* profile
Profile(cap) ==
    /\ Free(cap)
    /\ \E auth_uid \in {FakeUid} \cup Uids :
        \E o \in SingleOutcomes(auth_uid) :
            resp' =
                IF o.result = "raise"
                THEN Response("profile", ProfileError(o.msg), 1, "none", "raise", o.msg,
                              [uid |-> auth_uid])
                ELSE Response("profile", ProfileResult(o.data), 1, "none", "none", NoMsg,
                              [uid |-> auth_uid])
    /\ UNCHANGED <<identities, users, nextId, handlers>>

\* ------------------------------------------------------------- specification
\* Requests handled concurrently by NumHandlers workers.
Next ==
    \/ SignupStart(NumHandlers)
    \/ SignupSelect
    \/ SignupWrite
    \/ LoginStart(NumHandlers)
    \/ LoginSelect
    \/ Protected(NumHandlers)
    \/ Profile(NumHandlers)

Spec == Init /\ [][Next]_vars

\* Requests handled one at a time.
NextSeq ==
    \/ SignupStart(1)
    \/ SignupSelect
    \/ SignupWrite
    \/ LoginStart(1)
    \/ LoginSelect
    \/ Protected(1)
    \/ Profile(1)

SpecSeq == Init /\ [][NextSeq]_vars

\* ------------------------------------------------------------- properties
SignupResponse == resp.kind = "signup"
LoginResponse == resp.kind = "login"
ProtectedResponse == resp.kind = "protected"
ProfileResponse == resp.kind = "profile"
ErrorBody == DOMAIN resp.body = {"error"}

\* C1: a signup request with email, password, first_name or role absent or empty
\* is answered 400 with an `error` field before any call to the platform, and the
\* step leaves the identity store and the users relation as they were; no
\* handler with such a request is ever in flight.
C1_MissingFieldsRejected ==
    [][/\ (resp'.kind = "signup" /\ resp'.ctx.missing) =>
            /\ resp'.status = 400
            /\ DOMAIN resp'.body = {"error"}
            /\ resp'.calls = 0
            /\ identities' = identities
            /\ users' = users
       /\ \A rec \in BagToSet(handlers') :
            rec.pc \in {"signup_select", "signup_write"} => ~ rec.ctx.missing]_vars

C1_Witness ==
    /\ SignupResponse /\ resp.ctx.missing
    /\ resp.status = 400 /\ resp.calls = 0
    /\ IdentityIds # {}

\* C2 as stated: every signup with all required fields for an email that is
\* already registered is answered 409, whatever sign_up does.
C2_RegisteredAlways409 ==
    (SignupResponse /\ ~ resp.ctx.missing /\ resp.ctx.registered) => resp.status = 409

\* C2 (amended): a signup for a registered email is answered 409 when a platform
\* call raises an already-registered or foreign-key message or sign_up returns
\* nothing; 500 only when a call raises another message or the write reports an
\* error; 400 only when the sign_up result carries no user; 201 only when
\* sign_up returned a user and the write succeeded.
C2_RegisteredOutcomes ==
    (SignupResponse /\ ~ resp.ctx.missing /\ resp.ctx.registered) =>
        /\ resp.raised \in AlreadyRegisteredMsgs \cup {MsgForeignKey, MsgNoAttributeUser}
             => (resp.status = 409 /\ resp.body = [error |-> TextAlreadyRegistered])
        /\ resp.status = 500 =>
             \/ resp.fault = "error"
             \/ resp.fault = "raise" /\ resp.raised \notin AlreadyRegisteredMsgs
                                    /\ resp.raised # MsgForeignKey
        /\ resp.status = 400 => resp.fault = "nouser"
        /\ resp.status = 201 => (resp.calls = 3 /\ resp.fault = "none")
        /\ resp.status \in {201, 400, 409, 500}

C2_Witness ==
    /\ SignupResponse /\ resp.ctx.registered
    /\ resp.raised = MsgUserAlreadyRegistered
    /\ resp.status = 409

\* C3 as stated: with the identity present and the profile row absent, a
\* signup for the same email whose platform calls all succeed takes the update
\* path and is answered 201.
C3_RetryTakesUpdate ==
    (SignupResponse /\ resp.ctx.orphan /\ resp.calls = 3 /\ resp.fault = "none") =>
        (resp.path = "update" /\ resp.status = 201)

\* C3 (amended): with the identity present and the profile row absent, a signup
\* for the same email, served on its own, takes the insert path once its
\* existence check is done; it is answered 201, with the row written for the
\* identity, when all its platform calls succeed, and 409 when sign_up raises an
\* already-registered failure or the insert violates the foreign key.
C3_RetryTakesInsert ==
    (SignupResponse /\ resp.ctx.orphan) =>
        /\ resp.calls = 3 => resp.path = "insert"
        /\ (resp.calls = 3 /\ resp.fault = "none") =>
             /\ resp.status = 201
             /\ resp.ctx.uid \in IdentityIds
             /\ RowsOf(resp.ctx.uid) = {InsertPayload(resp.ctx.uid, resp.ctx.payload)}
        /\ resp.raised \in AlreadyRegisteredMsgs \cup {MsgForeignKey} => resp.status = 409

C3_Witness ==
    /\ SignupResponse /\ resp.ctx.orphan
    /\ resp.path = "insert" /\ resp.status = 201

\* C4 as stated: a signup whose insert fails under the uniqueness constraint on
\* auth_uid is answered 409.
C4_UniqueViolationIsConflict ==
    (SignupResponse /\ resp.raised = MsgUniqueViolation) => resp.status = 409

\* A platform call of the request raised a failure whose message matches no
\* pattern of the endpoint.
Unclassified ==
    /\ resp.fault = "raise"
    /\ SignupResponse => ClassifySignupError(resp.raised).status = 500
    /\ LoginResponse => ClassifyLoginError(resp.raised).status = 500

\* C5 as stated: on every endpoint a platform failure whose message matches no
\* pattern is answered 500 with a fixed text that does not hold the raised
\* message.
C5_NoRawMessage ==
    (resp.kind # "none" /\ Unclassified) =>
        (resp.status = 500 /\ ~ Contains(resp.body.error, resp.raised))

\* C6 as stated: a /protected request without a verifiable token (no header, no
\* token segment, a token the platform does not verify, a failed verification)
\* is answered 401.
C6_ProtectedUnauthorized ==
    (ProtectedResponse /\ (~ resp.ctx.verifiable \/ resp.fault = "raise")) =>
        resp.status = 401

C7_WitnessNotFound ==
    /\ ProfileResponse /\ resp.status = 404
    /\ resp.ctx.uid \in IdentityIds

\* C8: a login refused for an unregistered email and a login refused for a wrong
\* password get the same answer, 401 with the one generic text, whichever
\* credential failure the platform raises.
C8_LoginUniformRefusal ==
    (/\ LoginResponse
     /\ resp.ctx.case \in {"unknown_email", "wrong_password"}
     /\ resp.raised \notin TransientMsgs) =>
        (resp.status = 401 /\ resp.body = [error |-> TextInvalidLogin])

C8_Witness ==
    /\ LoginResponse /\ resp.ctx.case = "unknown_email"
    /\ resp.raised = MsgUserNotFound
    /\ resp.status = 401

C8_WitnessWrongPassword ==
    /\ LoginResponse /\ resp.ctx.case = "wrong_password"
    /\ resp.raised = MsgInvalidLoginCredentials
    /\ resp.status = 401

C10_LoginWithoutProfile ==
    (/\ LoginResponse
     /\ resp.ctx.case = "credentials_ok"
     /\ resp.calls = 2 /\ resp.fault = "none"
     /\ RowsOf(resp.ctx.uid) = {}) =>
        resp.status = 404

C10_Witness ==
    /\ LoginResponse /\ resp.status = 404
    /\ resp.ctx.uid \in IdentityIds
    /\ RowsOf(resp.ctx.uid) = {}

====
